---- MODULE Spec2Model ----
(***************************************************************************)
(* LoveBin: the ephemeral media pipeline (upload, preview, one-shot        *)
(* download, expiration sweep) over a metadata table and a blob store.     *)
(*                                                                         *)
(* Every database statement and every blob-store call is one atomic step;  *)
(* the Go code between two such calls is folded into the step that         *)
(* follows it.  The repository runs each statement on the connection pool  *)
(* (repository.go:42-46), never inside a transaction, so a row lock taken  *)
(* by SELECT ... FOR UPDATE ends with the statement that took it.          *)
(*                                                                         *)
(* Cryptography is symbolic: PBKDF2 is an injective function of            *)
(* (password, salt), bcrypt an injective function of the password, and     *)
(* AES-GCM opens a sealed box exactly when the derived key is the sealing  *)
(* key and the box was not altered.                                        *)
(***************************************************************************)
EXTENDS Integers, Sequences, FiniteSets, TLC

VARIABLES
    rows,       \* media_resources: resource_key -> row
    blobs,      \* the bucket: "media/" + resource_key -> object
    now,        \* the clock (time.Now() and SQL NOW())
    pc,         \* where each request task stands
    req,        \* the request each task serves, or served last
    loc,        \* the task's local variables between two steps
    res,        \* what the task's last request returned
    app,        \* how far App.Shutdown has come ("running" before it)
    call,       \* a call of a function of the request surface: its input, then its output
    sweepPc,    \* where the cron job stands
    sweepRes,   \* what the last completed sweep returned
    expiredKeys,\* the sweep's snapshot of expired resource keys
    s3Done,     \* the keys of the snapshot whose blob deletion was attempted
    uploads,    \* history: what the upload that created the row was given
    ops         \* history: requests and sweeps started so far

vars == <<rows, blobs, now, pc, req, loc, res, app, call, sweepPc, sweepRes, expiredKeys,
          s3Done, uploads, ops>>

(***************************************************************************)
(* Bounds of the model.                                                    *)
(***************************************************************************)
\* requests, sweeps and blob alterations started in one run
MaxOps == 3

\* the concurrent request tasks; those that upload
Procs == {"t1", "t2"}
Uploaders == {"t1"}

ResourceKeys == {"rkA", "rkB"}
KeyOrder == <<"rkA", "rkB">>

\* the file of the n-th request of the run: no two uploads carry the same
Payload(n) == <<104, n>>

(***************************************************************************)
(* Program constants.                                                      *)
(***************************************************************************)
EncKeySize == 32
NonceSize == 12
TagSize == 16

\* GenerateKey: 32 random bytes.  The n-th draw of the run is a value no
\* other draw yields; draw 0 is a key no upload ever generated.
GenerateKey(n) == [i \in 1..EncKeySize |-> (7 * i + n) % 256]
OtherKey == GenerateKey(0)

\* user passwords as byte strings; the empty string is "no password"
NoPassword == <<>>
Secret == <<115>>
Wrong == <<119>>
UploadPasswords == {NoPassword, Secret}
RequestPasswords == {NoPassword, Secret, Wrong}

(***************************************************************************)
(* base64, URL alphabet.  A character is its index in the alphabet         *)
(* (0..63); "=" is PadChar.                                                *)
(***************************************************************************)
PadChar == 64

RECURSIVE EncodeGroups(_)
EncodeGroups(b) ==
    IF Len(b) = 0 THEN <<>>
    ELSE IF Len(b) = 1 THEN
        << b[1] \div 4, (b[1] % 4) * 16 >>
    ELSE IF Len(b) = 2 THEN
        << b[1] \div 4, (b[1] % 4) * 16 + b[2] \div 16, (b[2] % 16) * 4 >>
    ELSE
        << b[1] \div 4,
           (b[1] % 4) * 16 + b[2] \div 16,
           (b[2] % 16) * 4 + b[3] \div 64,
           b[3] % 64 >> \o EncodeGroups(SubSeq(b, 4, Len(b)))

\* base64.RawURLEncoding.EncodeToString
RawURLEncode(b) == EncodeGroups(b)

\* base64.URLEncoding.EncodeToString
URLEncode(b) ==
    EncodeGroups(b) \o
        (IF Len(b) % 3 = 1 THEN <<PadChar, PadChar>>
         ELSE IF Len(b) % 3 = 2 THEN <<PadChar>> ELSE <<>>)

RECURSIVE DecodeGroups(_)
DecodeGroups(s) ==
    IF Len(s) = 0 THEN <<>>
    ELSE IF Len(s) = 2 THEN
        << s[1] * 4 + s[2] \div 16 >>
    ELSE IF Len(s) = 3 THEN
        << s[1] * 4 + s[2] \div 16, (s[2] % 16) * 16 + s[3] \div 4 >>
    ELSE
        << s[1] * 4 + s[2] \div 16,
           (s[2] % 16) * 16 + s[3] \div 4,
           (s[3] % 4) * 64 + s[4] >> \o DecodeGroups(SubSeq(s, 5, Len(s)))

\* a decoder that skips the characters it does not know
RawURLDecodeLenient(s) ==
    [ok |-> TRUE, bytes |-> DecodeGroups(SelectSeq(s, LAMBDA c : c < PadChar))]

\* base64.RawURLEncoding.DecodeString: no padding accepted
RawURLDecode(s) ==
    IF (\E i \in 1..Len(s) : s[i] >= PadChar) \/ Len(s) % 4 = 1
    THEN [ok |-> FALSE, bytes |-> <<>>]
    ELSE [ok |-> TRUE, bytes |-> DecodeGroups(s)]

(***************************************************************************)
(* Crypto primitive (symbolic).                                            *)
(***************************************************************************)
Pbkdf2(password, salt) == <<password, salt>>

\* gcm.Seal(nonce, nonce, data, nil): nonce || ciphertext || tag
Encrypt(data, password, salt) ==
    [ key    |-> Pbkdf2(password, salt),
      pt     |-> data,
      size   |-> NonceSize + Len(data) + TagSize,
      intact |-> TRUE ]

DecryptError == [ok |-> FALSE, data |-> <<>>]

\* a Decrypt that checks neither the key nor the tag
DecryptUnauthenticated(encryptedData, salt, password) ==
    IF encryptedData.size < NonceSize THEN DecryptError
    ELSE [ok |-> TRUE, data |-> encryptedData.pt]

Decrypt(encryptedData, salt, password) ==
    IF encryptedData.size < NonceSize THEN DecryptError
    ELSE IF Pbkdf2(password, salt) = encryptedData.key /\ encryptedData.intact
         THEN [ok |-> TRUE, data |-> encryptedData.pt]
         ELSE DecryptError

hashPassword(password) == <<0>> \o password

verifyPassword(password, hash) == hash = hashPassword(password)

\* UploadMedia: encryptionPassword := string(encKey), or with a password
\* req.Password + string(encKey)
EncryptionPassword(password, encKey) ==
    IF password # <<>> THEN password \o encKey ELSE encKey

\* a reconstruction that puts the key before the password
ReconstructKeyFirst(password, encKey) ==
    IF password # <<>> THEN encKey \o password ELSE encKey

\* DownloadMedia: "Reconstruct encryption password"
ReconstructEncryptionPassword(password, encKey) ==
    IF password # <<>> THEN password \o encKey ELSE encKey

(***************************************************************************)
(* Metadata table and bucket.                                              *)
(***************************************************************************)
NoRow == [present |-> FALSE]
NoBlob == [exists |-> FALSE]
NullHash == <<>>
NullTime == 0

\* expires_at IS NULL OR expires_at > NOW()
NotExpiredSQL(row) == row.expires_at = NullTime \/ row.expires_at > now

GetMediaResourceByKey(k) ==
    IF rows[k].present /\ NotExpiredSQL(rows[k]) /\ ~rows[k].viewed
    THEN rows[k] ELSE NoRow

GetMediaResourceForView(k) ==
    IF rows[k].present /\ NotExpiredSQL(rows[k]) THEN rows[k] ELSE NoRow

\* the access service's query: the row by resource_key, whatever its state
CheckResourceAccess(k) == rows[k]

\* expires_at IS NOT NULL AND expires_at <= NOW()
GetExpiredResources ==
    {k \in ResourceKeys :
        rows[k].present /\ rows[k].expires_at # NullTime /\ rows[k].expires_at <= now}

\* !ExpiresAt.IsZero() && ExpiresAt.Before(time.Now())
IsExpired(row) == row.expires_at # NullTime /\ row.expires_at < now

(***************************************************************************)
(* Access guard.                                                           *)
(***************************************************************************)
\* a VerifyAccess that asks for no password
VerifyAccessWithoutPassword(k, password) ==
    LET access == CheckResourceAccess(k) IN
    IF ~access.present THEN "NotFound"
    ELSE IF IsExpired(access) THEN "Expired"
    ELSE IF access.viewed THEN "AlreadyViewed"
    ELSE "OK"

\* a VerifyAccess that looks at viewed before it looks at the expiry
VerifyAccessViewedFirst(k, password) ==
    LET access == CheckResourceAccess(k) IN
    IF ~access.present THEN "NotFound"
    ELSE IF access.viewed THEN "AlreadyViewed"
    ELSE IF IsExpired(access) THEN "Expired"
    ELSE IF access.password_hash # NullHash /\ password = <<>> THEN "PasswordRequired"
    ELSE IF access.password_hash # NullHash /\ ~verifyPassword(password, access.password_hash)
         THEN "InvalidPassword"
    ELSE "OK"

VerifyAccess(k, password) ==
    LET access == CheckResourceAccess(k) IN
    IF ~access.present THEN "NotFound"
    ELSE IF IsExpired(access) THEN "Expired"
    ELSE IF access.viewed THEN "AlreadyViewed"
    ELSE IF access.password_hash # NullHash /\ password = <<>> THEN "PasswordRequired"
    ELSE IF access.password_hash # NullHash /\ ~verifyPassword(password, access.password_hash)
         THEN "InvalidPassword"
    ELSE "OK"

(***************************************************************************)
(* Request tasks.                                                          *)
(***************************************************************************)
NoReq == [op |-> "none"]
NoLoc == [at |-> "none"]
NoUpload == [made |-> FALSE]
NoCall == [fn |-> "none"]

\* the status codes the handlers answer with
StatusOK == 200
StatusBadRequest == 400
StatusGone == 410
StatusInternalServerError == 500

\* Handlers.renderError: the error page, always with 400
renderError == StatusBadRequest

\* Handlers.renderAlreadyViewed: the already-viewed page, with 410
renderAlreadyViewed == StatusGone

\* Handlers.renderResult: the HTMX fragment, which sets no status
renderResult == StatusOK

\* the switch of DownloadMediaFile / PreviewMedia on the error of
\* accessService.VerifyAccess
VerifyAccessResponse(err) ==
    CASE err = "NotFound" -> renderError
      [] err = "Expired" -> renderError
      [] err = "AlreadyViewed" -> renderAlreadyViewed
      [] err \in {"PasswordRequired", "InvalidPassword"} -> renderError
      [] OTHER -> renderError

\* the switch of DownloadMediaFile / PreviewMedia on the error of
\* mediaService.DownloadMedia / GetMediaPreview
MediaResponse(err) ==
    CASE err = "NotFound" -> renderError
      [] err = "AlreadyViewed" -> renderAlreadyViewed
      [] err \in {"MissingEncryptionKey", "InvalidEncryptionKey"} -> renderError
      [] err = "DecryptionFailed" -> renderError
      [] OTHER -> renderError

\* Handlers.UploadMedia answering a request it rejects (hxRequest: the
\* request carries HX-Request: true)
UploadRejected(hxRequest) == IF hxRequest THEN renderResult ELSE renderError

\* Handlers.UploadMedia answering after mediaService.UploadMedia failed
UploadFailed(hxRequest) ==
    IF hxRequest THEN renderResult ELSE StatusInternalServerError

\* Handlers.UploadMedia answering after mediaService.UploadMedia succeeded
UploadSucceeded(hxRequest) == IF hxRequest THEN renderResult ELSE StatusOK

Result(op, status, k, data, http) ==
    [op |-> op, status |-> status, key |-> k, data |-> data, http |-> http]
NoResult == Result("none", "none", "", <<>>, 0)

\* what a client may put in the fragment / ?enc_key= for resource k: the
\* key the upload returned, another key, or nothing
EncKeyInputs(k) ==
    (IF uploads[k].made THEN {uploads[k].encKeyBase64} ELSE {})
        \cup {RawURLEncode(OtherKey), <<>>}

\* the expiry a client may ask for: none, or the instant 2
ExpiresInputs == {NullTime, 2}

\* A key is in use while a row, an object or an upload in flight has it.
InUse(k) ==
    \/ rows[k].present
    \/ blobs[k].exists
    \/ \E q \in Procs : pc[q] \in {"insert", "rollback"} /\ loc[q].resourceKey = k

\* GenerateURLKey: 16 random bytes.  The draw is a key in use (a collision)
\* or one that is not; the keys not in use are alike, so the first stands
\* for them all.
GenerateURLKey ==
    {k \in ResourceKeys : InUse(k)} \cup
    {KeyOrder[i] : i \in {j \in 1..Len(KeyOrder) :
                            /\ ~InUse(KeyOrder[j])
                            /\ \A h \in 1..(j - 1) : InUse(KeyOrder[h])}}

Object(data) == [exists |-> TRUE, data |-> data]

InitService ==
    /\ rows = [k \in ResourceKeys |-> NoRow]
    /\ blobs = [k \in ResourceKeys |-> NoBlob]
    /\ now = 1
    /\ pc = [p \in Procs |-> "idle"]
    /\ req = [p \in Procs |-> NoReq]
    /\ loc = [p \in Procs |-> NoLoc]
    /\ res = [p \in Procs |-> NoResult]
    /\ sweepPc = "idle"
    /\ sweepRes = "none"
    /\ expiredKeys = {}
    /\ s3Done = {}
    /\ uploads = [k \in ResourceKeys |-> NoUpload]
    /\ ops = 0
    /\ app = "running"

Init == InitService /\ call = NoCall

\* the task returns: its locals die; its request and its result stay on
\* record until its next request
Return(p, request, result) ==
    /\ pc' = [pc EXCEPT ![p] = "idle"]
    /\ req' = [req EXCEPT ![p] = request]
    /\ loc' = [loc EXCEPT ![p] = NoLoc]
    /\ res' = [res EXCEPT ![p] = result]

Goto(p, label, request, locals) ==
    /\ pc' = [pc EXCEPT ![p] = label]
    /\ req' = [req EXCEPT ![p] = request]
    /\ loc' = [loc EXCEPT ![p] = locals]
    /\ res' = [res EXCEPT ![p] = NoResult]

(***************************************************************************)
(* Upload.                                                                 *)
(***************************************************************************)
\* an UploadMedia that goes on to CreateMediaResource when s3.Upload failed
UploadMediaIgnoringPut(p) ==
    /\ p \in Uploaders
    /\ pc[p] = "idle"
    /\ ops < MaxOps
    /\ ops' = ops + 1
    /\ \E password \in UploadPasswords, expiresAt \in ExpiresInputs :
         LET data == Payload(ops')
             request == [op |-> "upload", password |-> password,
                         data |-> data, expiresAt |-> expiresAt]
         IN
         IF expiresAt # NullTime /\ expiresAt < now
         THEN /\ \E hxRequest \in BOOLEAN :
                   Return(p, request, Result("upload", "BadRequest", "", <<>>,
                                             UploadRejected(hxRequest)))
              /\ UNCHANGED blobs
         ELSE \E resourceKey \in GenerateURLKey, putOk \in BOOLEAN :
                LET encKey == GenerateKey(ops')
                    salt == ops'
                    locals == [resourceKey |-> resourceKey, encKey |-> encKey,
                               salt |-> salt]
                    encryptedData ==
                        Encrypt(data, EncryptionPassword(password, encKey), salt)
                IN /\ blobs' = IF putOk
                               THEN [blobs EXCEPT ![resourceKey] = Object(encryptedData)]
                               ELSE blobs
                   /\ Goto(p, "insert", request, locals)
    /\ UNCHANGED <<app, call, rows, now, sweepPc, sweepRes, expiredKeys, s3Done, uploads>>

\* Handlers.UploadMedia, then Service.UploadMedia up to and including s3.Upload
UploadMedia(p) ==
    /\ p \in Uploaders
    /\ pc[p] = "idle"
    /\ ops < MaxOps
    /\ ops' = ops + 1
    /\ \E password \in UploadPasswords, expiresAt \in ExpiresInputs :
         LET data == Payload(ops')
             request == [op |-> "upload", password |-> password,
                         data |-> data, expiresAt |-> expiresAt]
         IN
         IF expiresAt # NullTime /\ expiresAt < now
         THEN /\ \E hxRequest \in BOOLEAN :
                   Return(p, request, Result("upload", "BadRequest", "", <<>>,
                                             UploadRejected(hxRequest)))
              /\ UNCHANGED blobs
         ELSE \E resourceKey \in GenerateURLKey, putOk \in BOOLEAN :
                LET encKey == GenerateKey(ops')
                    salt == ops'
                    locals == [resourceKey |-> resourceKey, encKey |-> encKey,
                               salt |-> salt]
                    encryptedData ==
                        Encrypt(data, EncryptionPassword(password, encKey), salt)
                IN IF putOk
                   THEN /\ blobs' = [blobs EXCEPT ![resourceKey] = Object(encryptedData)]
                        /\ Goto(p, "insert", request, locals)
                   ELSE /\ \E hxRequest \in BOOLEAN :
                             Return(p, request,
                                    Result("upload", "Internal", resourceKey, <<>>,
                                           UploadFailed(hxRequest)))
                        /\ UNCHANGED blobs
    /\ UNCHANGED <<app, call, rows, now, sweepPc, sweepRes, expiredKeys, s3Done, uploads>>

\* hashPassword, whose error returns at once; CreateMediaResource with the
\* UNIQUE(resource_key) constraint
UploadMedia_Insert(p) ==
    /\ pc[p] = "insert"
    /\ \E hashOk \in BOOLEAN, dbOk \in BOOLEAN :
         LET k == loc[p].resourceKey
             passwordHash == IF req[p].password # <<>>
                             THEN hashPassword(req[p].password) ELSE NullHash
             encKeyBase64 == RawURLEncode(loc[p].encKey)
         IN IF req[p].password # <<>> /\ ~hashOk
            THEN /\ \E hxRequest \in BOOLEAN :
                      Return(p, req[p], Result("upload", "Internal", k, <<>>,
                                               UploadFailed(hxRequest)))
                 /\ UNCHANGED <<rows, uploads>>
            ELSE IF dbOk /\ ~rows[k].present
            THEN /\ rows' = [rows EXCEPT ![k] =
                        [present |-> TRUE, password_hash |-> passwordHash,
                         expires_at |-> req[p].expiresAt, viewed |-> FALSE,
                         salt |-> loc[p].salt]]
                 /\ uploads' = [uploads EXCEPT ![k] =
                        [made |-> TRUE, data |-> req[p].data,
                         password |-> req[p].password,
                         encKeyBase64 |-> encKeyBase64, salt |-> loc[p].salt]]
                 /\ \E hxRequest \in BOOLEAN :
                      Return(p, req[p], Result("upload", "OK", k, encKeyBase64,
                                               UploadSucceeded(hxRequest)))
            ELSE /\ Goto(p, "rollback", req[p], loc[p])
                 /\ UNCHANGED <<rows, uploads>>
    /\ UNCHANGED <<app, call, blobs, now, sweepPc, sweepRes, expiredKeys, s3Done, ops>>

\* _ = s.s3.Delete(ctx, "", s3Key); return nil, err
UploadMedia_Rollback(p) ==
    /\ pc[p] = "rollback"
    /\ \E deleteOk \in BOOLEAN :
         blobs' = IF deleteOk THEN [blobs EXCEPT ![loc[p].resourceKey] = NoBlob]
                  ELSE blobs
    /\ \E hxRequest \in BOOLEAN :
         Return(p, req[p], Result("upload", "Internal", loc[p].resourceKey, <<>>,
                                  UploadFailed(hxRequest)))
    /\ UNCHANGED <<app, call, rows, now, sweepPc, sweepRes, expiredKeys, s3Done,
          uploads, ops>>

(***************************************************************************)
(* Retrieval: download (one-shot) and preview.                             *)
(***************************************************************************)
\* The handler's accessService.VerifyAccess, then the service's checks of
\* the encryption key, which touch no shared state.
EnterWith(p, op, keyInputs) ==
    /\ pc[p] = "idle"
    /\ ops < MaxOps
    /\ ops' = ops + 1
    /\ \E k \in ResourceKeys, password \in RequestPasswords :
       \E encKeyBase64 \in keyInputs[k] :
         LET access == VerifyAccess(k, password)
             request == [op |-> op, resourceKey |-> k, password |-> password,
                         encKeyBase64 |-> encKeyBase64]
         IN
         IF access # "OK"
         THEN Return(p, request, Result(op, access, k, <<>>,
                                        VerifyAccessResponse(access)))
         ELSE IF encKeyBase64 = <<>>
              THEN Return(p, request, Result(op, "MissingEncryptionKey", k, <<>>,
                                             MediaResponse("MissingEncryptionKey")))
         ELSE IF ~RawURLDecode(encKeyBase64).ok
              THEN Return(p, request, Result(op, "InvalidEncryptionKey", k, <<>>,
                                             MediaResponse("InvalidEncryptionKey")))
         ELSE Goto(p, "query", request, NoLoc)
    /\ UNCHANGED <<app, call, rows, blobs, now, sweepPc, sweepRes, expiredKeys, s3Done, uploads>>

\* a request with one of the keys of EncKeyInputs
Enter(p, op) == EnterWith(p, op, [k \in ResourceKeys |-> EncKeyInputs(k)])

\* Handlers.DownloadMediaFile
DownloadMediaFile(p) == Enter(p, "download")

\* Handlers.PreviewMedia
PreviewMedia(p) == Enter(p, "preview")

\* the row read of the pipeline: FOR UPDATE for a download, viewed = FALSE
\* for a preview
ReadRow(p) ==
    IF req[p].op = "download"
    THEN GetMediaResourceForView(req[p].resourceKey)
    ELSE GetMediaResourceByKey(req[p].resourceKey)

Query(p) ==
    /\ pc[p] = "query"
    /\ LET resource == ReadRow(p) IN
       IF ~resource.present
       THEN Return(p, req[p], Result(req[p].op, "NotFound", req[p].resourceKey, <<>>,
                                   MediaResponse("NotFound")))
       ELSE Goto(p, "fetch", req[p], [resource |-> resource])
    /\ UNCHANGED <<app, call, rows, blobs, now, sweepPc, sweepRes, expiredKeys, s3Done, uploads, ops>>

\* a Retrieve that takes a missing object for one that does not decrypt
RetrieveMissingAsCorrupt(resource, request) ==
    LET k == request.resourceKey
        encKey == RawURLDecode(request.encKeyBase64).bytes
        encryptionPassword == ReconstructEncryptionPassword(request.password, encKey)
    IN IF IsExpired(resource) THEN [status |-> "Expired", data |-> <<>>]
       ELSE IF resource.viewed THEN [status |-> "AlreadyViewed", data |-> <<>>]
       ELSE IF /\ resource.password_hash # NullHash
               /\ ~verifyPassword(request.password, resource.password_hash)
            THEN [status |-> "InvalidPassword", data |-> <<>>]
       ELSE IF ~blobs[k].exists THEN [status |-> "DecryptionFailed", data |-> <<>>]
       ELSE LET decrypted == Decrypt(blobs[k].data, resource.salt, encryptionPassword)
            IN IF ~decrypted.ok
               THEN [status |-> "DecryptionFailed", data |-> <<>>]
               ELSE [status |-> "OK", data |-> decrypted.data]

\* the checks on the row that was read, s3.Download and Decrypt:
\* an error name, or the plaintext
Retrieve(resource, request) ==
    LET k == request.resourceKey
        encKey == RawURLDecode(request.encKeyBase64).bytes
        encryptionPassword == ReconstructEncryptionPassword(request.password, encKey)
    IN IF IsExpired(resource) THEN [status |-> "Expired", data |-> <<>>]
       ELSE IF resource.viewed THEN [status |-> "AlreadyViewed", data |-> <<>>]
       ELSE IF /\ resource.password_hash # NullHash
               /\ ~verifyPassword(request.password, resource.password_hash)
            THEN [status |-> "InvalidPassword", data |-> <<>>]
       ELSE IF ~blobs[k].exists THEN [status |-> "NotFound", data |-> <<>>]
       ELSE LET decrypted == Decrypt(blobs[k].data, resource.salt, encryptionPassword)
            IN IF ~decrypted.ok
               THEN [status |-> "DecryptionFailed", data |-> <<>>]
               ELSE [status |-> "OK", data |-> decrypted.data]

\* an AfterDecrypt that sends a preview on to MarkAsViewed too
AfterDecryptMarking(p, data) ==
    Goto(p, "mark", req[p], [decryptedData |-> data])

\* what a download does once the plaintext is in hand: on to MarkAsViewed
AfterDecrypt(p, data) ==
    IF req[p].op = "download"
    THEN Goto(p, "mark", req[p], [decryptedData |-> data])
    ELSE Return(p, req[p], Result("preview", "OK", req[p].resourceKey, data, StatusOK))

\* a Fetch that marks the row viewed before it decrypts
FetchMarkingFirst(p) ==
    /\ pc[p] = "fetch"
    /\ LET got == Retrieve(loc[p].resource, req[p]) IN
       IF got.status # "OK"
       THEN Return(p, req[p], Result(req[p].op, got.status, req[p].resourceKey, <<>>,
                                   MediaResponse(got.status)))
       ELSE AfterDecrypt(p, got.data)
    /\ rows' = IF req[p].op = "download" /\ rows[req[p].resourceKey].present
               THEN [rows EXCEPT ![req[p].resourceKey].viewed = TRUE]
               ELSE rows
    /\ UNCHANGED <<app, call, blobs, now, sweepPc, sweepRes, expiredKeys, s3Done, uploads, ops>>

Fetch(p) ==
    /\ pc[p] = "fetch"
    /\ LET got == Retrieve(loc[p].resource, req[p]) IN
       IF got.status # "OK"
       THEN Return(p, req[p], Result(req[p].op, got.status, req[p].resourceKey, <<>>,
                                   MediaResponse(got.status)))
       ELSE AfterDecrypt(p, got.data)
    /\ UNCHANGED <<app, call, rows, blobs, now, sweepPc, sweepRes, expiredKeys, s3Done, uploads, ops>>

\* a MarkAsViewed whose UPDATE has no WHERE clause
MarkEveryRowViewed(k, dbOk) ==
    IF dbOk
    THEN [j \in ResourceKeys |->
            IF rows[j].present THEN [rows[j] EXCEPT !.viewed = TRUE] ELSE rows[j]]
    ELSE rows

\* a MarkAsViewed that deletes the row it was to mark
DeleteViewedResource(k, dbOk) ==
    IF dbOk /\ rows[k].present
    THEN [rows EXCEPT ![k] = NoRow]
    ELSE rows

\* a MarkAsViewed that flips the flag
ToggleViewed(k, dbOk) ==
    IF dbOk /\ rows[k].present
    THEN [rows EXCEPT ![k] = [rows[k] EXCEPT !.viewed = ~rows[k].viewed]]
    ELSE rows

\* UPDATE media_resources SET viewed = TRUE WHERE resource_key = $1
MarkAsViewed(k, dbOk) ==
    IF dbOk /\ rows[k].present
    THEN [rows EXCEPT ![k] = [rows[k] EXCEPT !.viewed = TRUE]]
    ELSE rows

\* MarkAsViewed; its error is logged and the plaintext returned all the same
Mark(p) ==
    /\ pc[p] = "mark"
    /\ \E dbOk \in BOOLEAN : rows' = MarkAsViewed(req[p].resourceKey, dbOk)
    /\ Return(p, req[p], Result("download", "OK", req[p].resourceKey,
                               loc[p].decryptedData, StatusOK))
    /\ UNCHANGED <<app, call, blobs, now, sweepPc, sweepRes, expiredKeys, s3Done, uploads, ops>>

(***************************************************************************)
(* Expiration sweeper (the cron job).                                      *)
(***************************************************************************)
\* the start of a run: GetExpiredResources
CleanupExpiredResources_Begin ==
    /\ sweepPc = "idle"
    /\ \E dbOk \in BOOLEAN :
         IF dbOk
         THEN /\ expiredKeys' = GetExpiredResources
              /\ sweepPc' = "s3"
              /\ UNCHANGED sweepRes
         ELSE /\ sweepRes' = "error"
              /\ UNCHANGED <<expiredKeys, sweepPc>>
    /\ s3Done' = {}
    /\ UNCHANGED <<app, call, rows, blobs, now, pc, req, loc, res, uploads>>

\* a run, counted among the operations
CleanupExpiredResources_Snapshot ==
    /\ ops < MaxOps
    /\ ops' = ops + 1
    /\ CleanupExpiredResources_Begin

\* a sweep that gives up at the first s3.Delete that fails
CleanupExpiredResources_S3Aborting ==
    /\ sweepPc = "s3"
    /\ \E resourceKey \in expiredKeys \ s3Done, deleteOk \in BOOLEAN :
         IF deleteOk
         THEN /\ blobs' = [blobs EXCEPT ![resourceKey] = NoBlob]
              /\ s3Done' = s3Done \cup {resourceKey}
              /\ UNCHANGED <<sweepPc, sweepRes, expiredKeys>>
         ELSE /\ sweepPc' = "idle"
              /\ sweepRes' = "error"
              /\ expiredKeys' = {}
              /\ s3Done' = {}
              /\ UNCHANGED blobs
    /\ UNCHANGED <<app, call, rows, now, pc, req, loc, res, uploads, ops>>

CleanupExpiredResources_S3 ==
    /\ sweepPc = "s3"
    /\ \E resourceKey \in expiredKeys \ s3Done, deleteOk \in BOOLEAN :
         /\ blobs' = IF deleteOk THEN [blobs EXCEPT ![resourceKey] = NoBlob] ELSE blobs
         /\ s3Done' = s3Done \cup {resourceKey}
    /\ UNCHANGED <<app, call, rows, now, pc, req, loc, res, sweepPc, sweepRes, expiredKeys, uploads, ops>>

\* a DELETE that removes one expired row a run, the first in key order
DeleteOneExpiredResource(dbOk) ==
    IF dbOk
    THEN [k \in ResourceKeys |->
            IF /\ k \in GetExpiredResources
               /\ \A i, j \in 1..Len(KeyOrder) :
                     (KeyOrder[j] = k /\ i < j) => KeyOrder[i] \notin GetExpiredResources
            THEN NoRow ELSE rows[k]]
    ELSE rows

\* a DELETE that removes every row with an expiry, due or not
DeleteExpiringResources(dbOk) ==
    IF dbOk
    THEN [k \in ResourceKeys |->
            IF rows[k].present /\ rows[k].expires_at # NullTime THEN NoRow ELSE rows[k]]
    ELSE rows

\* DELETE FROM media_resources WHERE expires_at IS NOT NULL AND expires_at <= NOW()
DeleteExpiredResources(dbOk) ==
    IF dbOk
    THEN [k \in ResourceKeys |-> IF k \in GetExpiredResources THEN NoRow ELSE rows[k]]
    ELSE rows

CleanupExpiredResources_Rows ==
    /\ sweepPc = "s3"
    /\ s3Done = expiredKeys
    /\ \E dbOk \in BOOLEAN :
         /\ rows' = DeleteExpiredResources(dbOk)
         /\ sweepRes' = IF dbOk THEN "ok" ELSE "error"
    /\ sweepPc' = "idle"
    /\ expiredKeys' = {}
    /\ s3Done' = {}
    /\ UNCHANGED <<app, call, blobs, now, pc, req, loc, res, uploads, ops>>

(***************************************************************************)
(* Environment.                                                            *)
(***************************************************************************)
\* Clock readings are odd and expiry instants even, so that a reading never
\* equals an expiry instant (as with the nanosecond clocks of the program).
\* Readings after the last expiry instant are alike: the clock stops there.
Tick ==
    /\ \E t \in ExpiresInputs : now < t
    /\ now' = now + 2
    /\ UNCHANGED <<app, call, rows, blobs, pc, req, loc, res, sweepPc, sweepRes, expiredKeys, s3Done,
                   uploads, ops>>

\* a stored object altered behind the service's back (one byte flipped)
CorruptBlob(k) ==
    /\ ops < MaxOps
    /\ ops' = ops + 1
    /\ blobs[k].exists
    /\ blobs[k].data.intact
    /\ blobs' = [blobs EXCEPT ![k] =
                    Object([blobs[k].data EXCEPT !.intact = FALSE])]
    /\ UNCHANGED <<app, call, rows, now, pc, req, loc, res, sweepPc, sweepRes, expiredKeys, s3Done,
                   uploads>>

Next ==
    \/ \E p \in Procs : UploadMedia(p)
    \/ \E p \in Procs : UploadMedia_Insert(p)
    \/ \E p \in Procs : UploadMedia_Rollback(p)
    \/ \E p \in Procs : DownloadMediaFile(p)
    \/ \E p \in Procs : PreviewMedia(p)
    \/ \E p \in Procs : Query(p)
    \/ \E p \in Procs : Fetch(p)
    \/ \E p \in Procs : Mark(p)
    \/ CleanupExpiredResources_Snapshot
    \/ CleanupExpiredResources_S3
    \/ CleanupExpiredResources_Rows
    \/ Tick
    \/ \E k \in ResourceKeys : CorruptBlob(k)

Spec == Init /\ [][Next]_vars

(***************************************************************************)
(* The service with two resources in store: the state two uploads by t1    *)
(* leave, rkA without expiry and rkB expiring at 2, neither with a         *)
(* password.  Their salts, keys and payloads are drawn past MaxOps, apart   *)
(* from those of the requests to come.                                     *)
(***************************************************************************)
\* the row, the object and the record an upload with draw n leaves
StoredRow(n, password, expiresAt) ==
    [present |-> TRUE,
     password_hash |-> IF password # <<>> THEN hashPassword(password) ELSE NullHash,
     expires_at |-> expiresAt, viewed |-> FALSE, salt |-> n]

StoredObject(n, password) ==
    Object(Encrypt(Payload(n), EncryptionPassword(password, GenerateKey(n)), n))

StoredUpload(n, password) ==
    [made |-> TRUE, data |-> Payload(n), password |-> password,
     encKeyBase64 |-> RawURLEncode(GenerateKey(n)), salt |-> n]

\* the draw and the expiry of the upload that made k
DrawOf(k) == IF k = KeyOrder[1] THEN MaxOps + 1 ELSE MaxOps + 2
ExpiryOf(k) == IF k = KeyOrder[1] THEN NullTime ELSE 2

InitTwoResources ==
    /\ rows = [k \in ResourceKeys |-> StoredRow(DrawOf(k), NoPassword, ExpiryOf(k))]
    /\ blobs = [k \in ResourceKeys |-> StoredObject(DrawOf(k), NoPassword)]
    /\ uploads = [k \in ResourceKeys |-> StoredUpload(DrawOf(k), NoPassword)]
    /\ now = 1
    /\ pc = [p \in Procs |-> "idle"]
    /\ req = [p \in Procs |->
                IF p \in Uploaders
                THEN [op |-> "upload", password |-> NoPassword,
                      data |-> Payload(MaxOps + 2), expiresAt |-> 2]
                ELSE NoReq]
    /\ loc = [p \in Procs |-> NoLoc]
    /\ res = [p \in Procs |->
                IF p \in Uploaders
                THEN Result("upload", "OK", KeyOrder[2],
                            RawURLEncode(GenerateKey(MaxOps + 2)), StatusOK)
                ELSE NoResult]
    /\ call = NoCall
    /\ app = "running"
    /\ sweepPc = "idle"
    /\ sweepRes = "none"
    /\ expiredKeys = {}
    /\ s3Done = {}
    /\ ops = 0

SpecTwoResources == InitTwoResources /\ [][Next]_vars

(***************************************************************************)
(* Requests with any key text: the two resources in store, and downloads   *)
(* and previews that present the key of the upload, another key, no key,   *)
(* or the key of the upload with the padding character appended.           *)
(***************************************************************************)
KeyTexts ==
    [k \in ResourceKeys |->
        EncKeyInputs(k) \cup {Append(uploads[k].encKeyBase64, PadChar)}]

DownloadMediaFile_KeyText(p) == EnterWith(p, "download", KeyTexts)

PreviewMedia_KeyText(p) == EnterWith(p, "preview", KeyTexts)

NextKeyChecks ==
    \/ \E p \in Procs : DownloadMediaFile_KeyText(p)
    \/ \E p \in Procs : PreviewMedia_KeyText(p)
    \/ \E p \in Procs : Query(p)
    \/ \E p \in Procs : Fetch(p)
    \/ \E p \in Procs : Mark(p)
    \/ Tick

SpecKeyChecks == InitTwoResources /\ [][NextKeyChecks]_vars

(***************************************************************************)
(* The sweeper on its schedule: the two resources in store, downloads, the *)
(* clock, and a run of CleanupExpiredResources whenever none is under way, *)
(* every statement and every s3.Delete of which succeeds.                  *)
(***************************************************************************)
Sweep_Snapshot ==
    /\ CleanupExpiredResources_Begin
    /\ sweepPc' = "s3"
    /\ UNCHANGED ops

Sweep_S3 ==
    /\ CleanupExpiredResources_S3
    /\ \A k \in s3Done' \ s3Done : ~blobs'[k].exists

Sweep_Rows ==
    /\ CleanupExpiredResources_Rows
    /\ sweepRes' = "ok"

NextCleanup ==
    \/ \E p \in Procs : DownloadMediaFile(p)
    \/ \E p \in Procs : Query(p)
    \/ \E p \in Procs : Fetch(p)
    \/ \E p \in Procs : Mark(p)
    \/ Sweep_Snapshot
    \/ Sweep_S3
    \/ Sweep_Rows
    \/ Tick

\* the cron job fires again and again and a run goes on to its end; the
\* clock advances
SpecCleanup ==
    /\ InitTwoResources
    /\ [][NextCleanup]_vars
    /\ WF_vars(Sweep_Snapshot)
    /\ WF_vars(Sweep_S3)
    /\ WF_vars(Sweep_Rows)
    /\ WF_vars(Tick)

(***************************************************************************)
(* Shutdown: main's signal handling and App.Shutdown, with the service     *)
(* running beside it.                                                      *)
(***************************************************************************)
\* the server still takes new requests
Listening == app \in {"running", "cronStopped"}

\* the process is there
Alive == app # "exited"

\* a step of request task p while the process shuts down: none after the
\* exit, and no new request once server.Shutdown has closed the listener
Serving(p) == Alive /\ (pc[p] = "idle" => Listening)

\* a.cron.Stop(): the scheduler starts no further job; the context it
\* returns, done when the running jobs are, is dropped
Shutdown_Cron ==
    /\ app = "running"
    /\ app' = "cronStopped"
    /\ UNCHANGED <<call, rows, blobs, now, pc, req, loc, res, sweepPc, sweepRes,
                   expiredKeys, s3Done, uploads, ops>>

\* a.server.Shutdown() closes the listener ...
Shutdown_Server ==
    /\ app = "cronStopped"
    /\ app' = "draining"
    /\ UNCHANGED <<call, rows, blobs, now, pc, req, loc, res, sweepPc, sweepRes,
                   expiredKeys, s3Done, uploads, ops>>

\* ... and returns when the requests in flight have been answered
Shutdown_Drained ==
    /\ app = "draining"
    /\ \A p \in Procs : pc[p] = "idle"
    /\ app' = "drained"
    /\ UNCHANGED <<call, rows, blobs, now, pc, req, loc, res, sweepPc, sweepRes,
                   expiredKeys, s3Done, uploads, ops>>

\* a.postgres.Close()
Shutdown_Postgres ==
    /\ app = "drained"
    /\ app' = "closed"
    /\ UNCHANGED <<call, rows, blobs, now, pc, req, loc, res, sweepPc, sweepRes,
                   expiredKeys, s3Done, uploads, ops>>

\* App.Shutdown returns and main with it
Exit ==
    /\ app = "closed"
    /\ app' = "exited"
    /\ UNCHANGED <<call, rows, blobs, now, pc, req, loc, res, sweepPc, sweepRes,
                   expiredKeys, s3Done, uploads, ops>>

\* the cron job of the sweep is started by the scheduler only; once
\* started it runs on its own context.Background() timeout, and on a
\* closed pool its statement fails
NextShutdown ==
    \/ \E p \in Procs : Serving(p) /\ UploadMedia(p)
    \/ \E p \in Procs : Serving(p) /\ UploadMedia_Insert(p)
    \/ \E p \in Procs : Serving(p) /\ UploadMedia_Rollback(p)
    \/ \E p \in Procs : Serving(p) /\ DownloadMediaFile(p)
    \/ \E p \in Procs : Serving(p) /\ PreviewMedia(p)
    \/ \E p \in Procs : Serving(p) /\ Query(p)
    \/ \E p \in Procs : Serving(p) /\ Fetch(p)
    \/ \E p \in Procs : Serving(p) /\ Mark(p)
    \/ app = "running" /\ CleanupExpiredResources_Snapshot
    \/ Alive /\ CleanupExpiredResources_S3
    \/ Alive /\ CleanupExpiredResources_Rows /\ (app = "closed" => sweepRes' = "error")
    \/ Alive /\ Tick
    \/ \E k \in ResourceKeys : Alive /\ CorruptBlob(k)
    \/ Shutdown_Cron
    \/ Shutdown_Server
    \/ Shutdown_Drained
    \/ Shutdown_Postgres
    \/ Exit

SpecShutdown == Init /\ [][NextShutdown]_vars

(***************************************************************************)
(* The expires_in field of the upload form: timeparser and the handler's   *)
(* check.  Texts are sequences of one-character strings; instants are      *)
(* seconds since the Unix epoch, ZeroTime being Go's time.Time{}.          *)
(***************************************************************************)
MaxLen == 3
ZeroTime == -1
Hour == 3600

Digits == <<"0", "1", "2", "3", "4", "5", "6", "7", "8", "9">>
IsDigit(c) == \E d \in 1..10 : Digits[d] = c
DigitValue(c) == (CHOOSE d \in 1..10 : Digits[d] = c) - 1

\* the characters the short texts are made of
ExpiresInChars == {"1", "2", "4", "7", "h", "d", "w", "y", "s", "-"}

\* "0001-01-01T00:00:00Z", the RFC3339 text of the zero time
ZeroTimeText ==
    <<"0", "0", "0", "1", "-", "0", "1", "-", "0", "1", "T",
      "0", "0", ":", "0", "0", ":", "0", "0", "Z">>

\* "2000000000", a Unix timestamp of the year 2033
LateTimestampText == <<"2", "0", "0", "0", "0", "0", "0", "0", "0", "0">>

\* the expires_in texts a client may send
ExpiresInTexts ==
    UNION {[1..n -> ExpiresInChars] : n \in 0..MaxLen}
        \cup {ZeroTimeText, LateTimestampText}

\* the readings of time.Now() at the upload
ClockInputs == {1700000000, 1800000000}

\* the number of leading digits of s
RECURSIVE DigitPrefix(_)
DigitPrefix(s) ==
    IF s = <<>> \/ ~IsDigit(Head(s)) THEN 0 ELSE 1 + DigitPrefix(Tail(s))

\* the value of the digits s[1..n]
RECURSIVE DecimalValue(_, _)
DecimalValue(s, n) ==
    IF n = 0 THEN 0 ELSE 10 * DecimalValue(s, n - 1) + DigitValue(s[n])

\* fmt.Sscanf(s, "%d", &v): an optional sign, then the longest run of
\* digits; whatever follows the digits is left unread and is no error
Sscanf(s) ==
    LET signed == s # <<>> /\ Head(s) \in {"-", "+"}
        body == IF signed THEN Tail(s) ELSE s
        n == DigitPrefix(body)
        v == DecimalValue(body, n)
    IN IF n = 0 THEN [ok |-> FALSE, value |-> 0]
       ELSE [ok |-> TRUE, value |-> IF signed /\ Head(s) = "-" THEN 0 - v ELSE v]

\* v > 4102444800 (the year 2100 in seconds), computed within 32 bits
AfterYear2100(v) ==
    \/ v \div 100 > 41024448
    \/ v \div 100 = 41024448 /\ v % 100 > 0

\* parseUnixTimestamp
parseUnixTimestamp(s) ==
    LET scanned == Sscanf(s) IN
    IF ~scanned.ok THEN [ok |-> FALSE, time |-> ZeroTime]
    ELSE IF scanned.value < 0 \/ AfterYear2100(scanned.value)
         THEN [ok |-> FALSE, time |-> ZeroTime]
    ELSE [ok |-> TRUE, time |-> scanned.value]

\* parseUnixTimestampMillis: only a value above 4102444800 is taken for
\* milliseconds
parseUnixTimestampMillis(s) ==
    LET scanned == Sscanf(s) IN
    IF ~scanned.ok THEN [ok |-> FALSE, time |-> ZeroTime]
    ELSE IF scanned.value < 0 THEN [ok |-> FALSE, time |-> ZeroTime]
    ELSE IF AfterYear2100(scanned.value)
         THEN [ok |-> TRUE, time |-> scanned.value \div 1000]
    ELSE [ok |-> FALSE, time |-> ZeroTime]

\* time.Parse under the layouts of ParseUniversalTime.  Every layout but
\* "2006-01-02" has a ':' and that one takes ten characters with two '-';
\* of the texts drawn here only the RFC3339 text of the zero time has one.
ParseLayouts(s) ==
    IF s = ZeroTimeText THEN [ok |-> TRUE, time |-> ZeroTime]
    ELSE [ok |-> FALSE, time |-> ZeroTime]

\* ParseUniversalTime: the layouts, then seconds, then milliseconds
ParseUniversalTime(s) ==
    IF s = <<>> THEN [ok |-> TRUE, time |-> ZeroTime]
    ELSE IF ParseLayouts(s).ok THEN ParseLayouts(s)
    ELSE IF parseUnixTimestamp(s).ok THEN parseUnixTimestamp(s)
    ELSE IF parseUnixTimestampMillis(s).ok THEN parseUnixTimestampMillis(s)
    ELSE [ok |-> FALSE, time |-> ZeroTime]

\* UniversalTime.UnmarshalText
UnmarshalText(s) ==
    IF s = <<>> THEN [ok |-> TRUE, time |-> ZeroTime] ELSE ParseUniversalTime(s)

\* Handlers.UploadMedia on the expires_in field: the answer that ends the
\* request, or the ExpiresAt handed to mediaService.UploadMedia
ExpiresIn(expiresInStr, clock, hxRequest) ==
    IF expiresInStr # <<>>
    THEN LET parsed == UnmarshalText(expiresInStr) IN
         IF ~parsed.ok
         THEN [accepted |-> FALSE, http |-> UploadRejected(hxRequest),
               expiresAt |-> ZeroTime]
         ELSE IF parsed.time # ZeroTime /\ parsed.time < clock
              THEN [accepted |-> FALSE, http |-> UploadRejected(hxRequest),
                    expiresAt |-> ZeroTime]
         ELSE [accepted |-> TRUE, http |-> UploadSucceeded(hxRequest),
               expiresAt |-> parsed.time]
    ELSE [accepted |-> TRUE, http |-> UploadSucceeded(hxRequest),
          expiresAt |-> clock + 24 * Hour]

\* Service.UploadMedia: the expires_at column of the row, NULL for the
\* zero time
ExpiresAtColumn(expiresAt) ==
    IF expiresAt # ZeroTime THEN [null |-> FALSE, time |-> expiresAt]
    ELSE [null |-> TRUE, time |-> ZeroTime]

\* an upload form arrives: its expires_in field, the clock, HX-Request
InitExpiresIn ==
    /\ InitService
    /\ call \in [fn : {"ExpiresIn"}, at : {"call"},
                 expiresInStr : ExpiresInTexts, clock : ClockInputs,
                 hxRequest : BOOLEAN,
                 result : {[accepted |-> FALSE, http |-> 0, expiresAt |-> ZeroTime]},
                 column : {ExpiresAtColumn(ZeroTime)}]

\* the handler works the field out, and the service the column
UploadMedia_ExpiresIn ==
    /\ call.fn = "ExpiresIn"
    /\ call.at = "call"
    /\ LET result == ExpiresIn(call.expiresInStr, call.clock, call.hxRequest) IN
       call' = [call EXCEPT !.at = "return",
                            !.result = result,
                            !.column = ExpiresAtColumn(result.expiresAt)]
    /\ UNCHANGED <<app, rows, blobs, now, pc, req, loc, res, sweepPc, sweepRes,
                   expiredKeys, s3Done, uploads, ops>>

NextExpiresIn == UploadMedia_ExpiresIn

SpecExpiresIn == InitExpiresIn /\ [][NextExpiresIn]_vars

(***************************************************************************)
(* The keys and the response of an upload, as texts.  A text is the        *)
(* sequence of its characters: 0..63 the URL-safe base64 alphabet (A-Z,    *)
(* a-z, 0-9, '-', '_'), PadChar '=', 65 '#', 66 '/'.                        *)
(***************************************************************************)
MaxSeed == 5
URLKeySize == 16

\* "#"
HashText == <<65>>

\* "/media/"
MediaURLPrefix == <<66, 38, 30, 29, 34, 26, 66>>

\* "media/"
MediaS3Prefix == <<38, 30, 29, 34, 26, 66>>

\* sixteen bytes out of rand.Reader
URLKeyBytes(n) == [i \in 1..URLKeySize |-> (11 * i + 29 * n) % 256]

\* encryption.GenerateURLKey on those bytes
EncodeURLKey(key) == URLEncode(key)

\* sub occurs in text
Contains(text, sub) ==
    \E i \in 0..(Len(text) - Len(sub)) : SubSeq(text, i + 1, i + Len(sub)) = sub

\* what comes after the first '#' of text (nothing if there is none)
FragmentOf(text) ==
    IF \E i \in 1..Len(text) : text[i] = HashText[1]
    THEN LET i == CHOOSE i \in 1..Len(text) :
                      /\ text[i] = HashText[1]
                      /\ \A j \in 1..(i - 1) : text[j] # HashText[1]
         IN SubSeq(text, i + 1, Len(text))
    ELSE <<>>

\* what comes before the first '#' of text
BeforeFragment(text) ==
    SubSeq(text, 1, Len(text) - Len(FragmentOf(text)) -
                    (IF Contains(text, HashText) THEN 1 ELSE 0))

\* Service.UploadMedia: the UploadResponse it returns
UploadResponse(resourceKey, encKeyBase64) ==
    [ResourceKey |-> resourceKey \o HashText \o encKeyBase64,
     URL |-> MediaURLPrefix \o resourceKey \o HashText \o encKeyBase64]

\* Handlers.UploadMedia: the fields of the answer to a successful upload,
\* the JSON body or, for HX-Request, the URL rendered into the fragment
\* (scheme and host left out)
UploadBody(resp, hxRequest) ==
    IF hxRequest THEN [url |-> resp.URL]
    ELSE [resource_key |-> resp.ResourceKey, url |-> resp.URL]

\* an upload draws its two keys
InitUploadResponse ==
    /\ InitService
    /\ call \in [fn : {"UploadResponse"}, at : {"call"},
                 key : {URLKeyBytes(n) : n \in 0..MaxSeed},
                 encKey : {GenerateKey(n) : n \in 0..MaxSeed},
                 hxRequest : BOOLEAN,
                 resourceKey : {<<>>}, encKeyBase64 : {<<>>},
                 s3Key : {<<>>}, rowKey : {<<>>},
                 body : {[url |-> <<>>]}]

\* Service.UploadMedia from the keys to the response, the pipeline
\* succeeding, and the handler's answer
UploadMedia_Response ==
    /\ call.fn = "UploadResponse"
    /\ call.at = "call"
    /\ LET resourceKey == EncodeURLKey(call.key)
           encKeyBase64 == RawURLEncode(call.encKey)
       IN call' = [call EXCEPT
                     !.at = "return",
                     !.resourceKey = resourceKey,
                     !.encKeyBase64 = encKeyBase64,
                     !.s3Key = MediaS3Prefix \o resourceKey,
                     !.rowKey = resourceKey,
                     !.body = UploadBody(UploadResponse(resourceKey, encKeyBase64),
                                         call.hxRequest)]
    /\ UNCHANGED <<app, rows, blobs, now, pc, req, loc, res, sweepPc, sweepRes,
                   expiredKeys, s3Done, uploads, ops>>

NextUploadResponse == UploadMedia_Response

SpecUploadResponse == InitUploadResponse /\ [][NextUploadResponse]_vars

(***************************************************************************)
(* What a view, preview or download request leaves in the log.             *)
(***************************************************************************)
\* "%23", the path escape of '#'
PercentHash == <<67, 54, 55>>

\* the routes /media/:key, /media/:key/preview, /media/:key/download
RouteSuffix(op) ==
    CASE op = "view" -> <<>>
      [] op = "preview" -> <<66, 41, 43, 30, 47, 34, 30, 48>>
      [] op = "download" -> <<66, 29, 40, 48, 39, 37, 40, 26, 29>>

\* how the client hands the encryption key over: kept in the fragment
\* (never sent), in ?enc_key=, or escaped inside the :key token of the path
KeyModes == {"fragment", "query", "path"}

\* the :key token of the request
KeyToken(resourceKey, encKeyBase64, mode) ==
    IF mode = "path" THEN resourceKey \o PercentHash \o encKeyBase64
    ELSE resourceKey

\* c.Path(): the path of the request, without the query
RequestPath(op, token) == MediaURLPrefix \o token \o RouteSuffix(op)

\* url.PathUnescape, for the one escape the tokens have
RECURSIVE PathUnescape(_)
PathUnescape(text) ==
    IF Len(text) < Len(PercentHash) THEN text
    ELSE IF SubSeq(text, 1, Len(PercentHash)) = PercentHash
         THEN HashText \o PathUnescape(SubSeq(text, Len(PercentHash) + 1, Len(text)))
    ELSE <<Head(text)>> \o PathUnescape(Tail(text))

\* getResourceKeyAndEncryptionKey: the token split at '#', else ?enc_key=;
\* a request carries no fragment of its own
getResourceKeyAndEncryptionKey(token, encKeyQuery) ==
    LET resourceKey == PathUnescape(token) IN
    IF Contains(resourceKey, HashText)
    THEN [resourceKey |-> BeforeFragment(resourceKey),
          encKeyBase64 |-> FragmentOf(resourceKey)]
    ELSE [resourceKey |-> resourceKey, encKeyBase64 |-> encKeyQuery]

\* the records of one request: "Request" of the middleware with c.Path(),
\* and the handler's and the service's records, which carry resource_key
LogRecords(path, resourceKey) ==
    {[msg |-> "Request", field |-> "path", text |-> path],
     [msg |-> "handler", field |-> "resource_key", text |-> resourceKey]}

\* a request for a resource arrives
InitRequestLog ==
    /\ InitService
    /\ call \in [fn : {"RequestLog"}, at : {"call"},
                 op : {"view", "preview", "download"},
                 mode : KeyModes,
                 resourceKey : {EncodeURLKey(URLKeyBytes(n)) : n \in 0..MaxSeed},
                 encKeyBase64 : {RawURLEncode(GenerateKey(n)) : n \in 0..MaxSeed},
                 got : {[resourceKey |-> <<>>, encKeyBase64 |-> <<>>]},
                 log : {{}}]

\* the handler takes the keys out of the request; the records are written
HandleRequest ==
    /\ call.fn = "RequestLog"
    /\ call.at = "call"
    /\ LET token == KeyToken(call.resourceKey, call.encKeyBase64, call.mode)
           encKeyQuery == IF call.mode = "query" THEN call.encKeyBase64 ELSE <<>>
           got == getResourceKeyAndEncryptionKey(token, encKeyQuery)
       IN call' = [call EXCEPT
                     !.at = "return",
                     !.got = got,
                     !.log = LogRecords(RequestPath(call.op, token), got.resourceKey)]
    /\ UNCHANGED <<app, rows, blobs, now, pc, req, loc, res, sweepPc, sweepRes,
                   expiredKeys, s3Done, uploads, ops>>

NextRequestLog == HandleRequest

SpecRequestLog == InitRequestLog /\ [][NextRequestLog]_vars

(***************************************************************************)
(* The encryption key of a download or preview request, from its text to   *)
(* the decryption.                                                         *)
(***************************************************************************)
\* the encodings a client may hold the key in
KeyEncodings == {"raw", "padded"}

\* the text of key in the encoding
EncodeKey(key, encoding) ==
    IF encoding = "padded" THEN URLEncode(key) ELSE RawURLEncode(key)

\* DownloadMedia / GetMediaPreview on the key alone: the checks of
\* req.EncKeyBase64, then Decrypt of the object the upload with draw n
\* stored (no password, the row found and live)
DecodeAndDecrypt(encKeyBase64, n) ==
    IF encKeyBase64 = <<>> THEN [status |-> "MissingEncryptionKey", data |-> <<>>]
    ELSE LET decoded == RawURLDecode(encKeyBase64) IN
         IF ~decoded.ok THEN [status |-> "InvalidEncryptionKey", data |-> <<>>]
         ELSE LET encryptedData ==
                      Encrypt(Payload(n), EncryptionPassword(NoPassword, GenerateKey(n)), n)
                  decrypted ==
                      Decrypt(encryptedData, n,
                              ReconstructEncryptionPassword(NoPassword, decoded.bytes))
              IN IF ~decrypted.ok THEN [status |-> "DecryptionFailed", data |-> <<>>]
                 ELSE [status |-> "OK", data |-> decrypted.data]

\* a request arrives with the key of draw m, in one of the encodings, for
\* the resource of draw n
InitKeyDecoding ==
    /\ InitService
    /\ call \in [fn : {"KeyDecoding"}, at : {"call"},
                 n : 0..MaxSeed, m : 0..MaxSeed, encoding : KeyEncodings,
                 result : {[status |-> "none", data |-> <<>>]}]

DownloadMedia_Key ==
    /\ call.fn = "KeyDecoding"
    /\ call.at = "call"
    /\ call' = [call EXCEPT
                  !.at = "return",
                  !.result = DecodeAndDecrypt(
                                 EncodeKey(GenerateKey(call.m), call.encoding), call.n)]
    /\ UNCHANGED <<app, rows, blobs, now, pc, req, loc, res, sweepPc, sweepRes,
                   expiredKeys, s3Done, uploads, ops>>

NextKeyDecoding == DownloadMedia_Key

SpecKeyDecoding == InitKeyDecoding /\ [][NextKeyDecoding]_vars

(***************************************************************************)
(* The filename of an upload: what UploadMedia stores of it and what the   *)
(* download handler makes of the stored columns.  A name is a sequence of  *)
(* characters; a NULL column is NullString.                                *)
(***************************************************************************)
MaxName == 4

NameChars == {"a", "B", "."}

\* the non-empty names of an upload (the base name of the multipart header)
Filenames == UNION {[1..n -> NameChars] : n \in 1..MaxName}

NullString == <<"NULL">>

\* filepath.Ext: the suffix from the last dot of the last path element on,
\* empty when that element has no dot
Ext(path) ==
    LET stops == {i \in 1..Len(path) : path[i] \in {".", "/"}}
        last == CHOOSE i \in stops : \A j \in stops : j <= i
    IN IF stops = {} THEN <<>>
       ELSE IF path[last] = "." THEN SubSeq(path, last, Len(path))
       ELSE <<>>

\* strings.TrimPrefix(s, ".")
TrimDot(s) == IF Len(s) > 0 /\ s[1] = "." THEN Tail(s) ELSE s

\* strings.TrimSuffix(s, suffix)
TrimSuffix(s, suffix) ==
    IF /\ Len(suffix) <= Len(s)
       /\ SubSeq(s, Len(s) - Len(suffix) + 1, Len(s)) = suffix
    THEN SubSeq(s, 1, Len(s) - Len(suffix))
    ELSE s

\* UploadMedia: the columns filename and file_extension for req.Filename
SplitFilename(name) ==
    IF name = <<>> THEN [filename |-> NullString, file_extension |-> NullString]
    ELSE LET extWithDot == Ext(name) IN
         IF extWithDot # <<>>
         THEN LET baseName == TrimSuffix(name, extWithDot) IN
              [filename |-> IF baseName = <<>> THEN name ELSE baseName,
               file_extension |-> TrimDot(extWithDot)]
         ELSE [filename |-> name, file_extension |-> NullString]

\* DownloadMediaFile: the name of the Content-Disposition header
DownloadFilename(stored, resourceKey) ==
    IF stored.filename # NullString /\ stored.filename # <<>>
    THEN IF stored.file_extension # NullString /\ stored.file_extension # <<>>
         THEN stored.filename \o <<".">> \o stored.file_extension
         ELSE stored.filename
    ELSE resourceKey

InitFilename ==
    /\ InitService
    /\ call \in [fn : {"Filename"}, at : {"call"}, name : Filenames,
                 resourceKey : {<<"k">>},
                 stored : {[filename |-> NullString, file_extension |-> NullString]},
                 downloadFilename : {<<>>}]

\* an upload with the name, then a download of the resource
UploadMedia_Filename ==
    /\ call.fn = "Filename"
    /\ call.at = "call"
    /\ LET stored == SplitFilename(call.name) IN
       call' = [call EXCEPT
                  !.at = "return",
                  !.stored = stored,
                  !.downloadFilename = DownloadFilename(stored, call.resourceKey)]
    /\ UNCHANGED <<app, rows, blobs, now, pc, req, loc, res, sweepPc, sweepRes,
                   expiredKeys, s3Done, uploads, ops>>

NextFilename == UploadMedia_Filename

SpecFilename == InitFilename /\ [][NextFilename]_vars

(***************************************************************************)
(* The claims.                                                             *)
(***************************************************************************)
\* the downloads that hold the payload of k: decrypted, MarkAsViewed due
Marking(k) == {p \in Procs : pc[p] = "mark" /\ req[p].resourceKey = k}

\* the step is one of task p
Acts(p) == pc'[p] # pc[p] \/ req'[p] # req[p] \/ res'[p] # res[p]

\* with this step task p returns from operation op on k
Returns(p, op, k) ==
    /\ Acts(p)
    /\ pc'[p] = "idle"
    /\ req'[p].op = op
    /\ res'[p].key = k

\* C1: of the downloads of one resource that has no password and no expiry,
\* at most one gets the payload, however they interleave.  A task at "mark"
\* has the payload and returns it whatever MarkAsViewed answers, so two
\* tasks there are two downloads that both return the payload.
C1_OneShotUnderConcurrency ==
    \A k \in ResourceKeys :
        (/\ rows[k].present
         /\ rows[k].password_hash = NullHash
         /\ rows[k].expires_at = NullTime)
            => Cardinality(Marking(k)) <= 1

\* C2: when a download returns the payload, the row (if the sweep has not
\* removed it) has viewed = TRUE at that moment.
C2_PayloadImpliesViewed ==
    [][\A p \in Procs, k \in ResourceKeys :
          (Returns(p, "download", k) /\ res'[p].status = "OK" /\ rows'[k].present)
              => rows'[k].viewed]_vars

\* C3: a download that returns DecryptionFailed changes neither a row (the
\* viewed flag stays as it was) nor an object.
C3_DecryptionFailureKeepsViewed ==
    [][\A p \in Procs, k \in ResourceKeys :
          (Returns(p, "download", k) /\ res'[p].status = "DecryptionFailed")
              => (rows' = rows /\ blobs' = blobs)]_vars

\* C3 happens: one download of k failed to decrypt, and a download of k with
\* the key of the upload got the payload and marked the row.
C3_Witness ==
    \E p, q \in Procs, k \in ResourceKeys :
        /\ pc[p] = "idle" /\ req[p].op = "download"
        /\ res[p].status = "DecryptionFailed" /\ res[p].key = k
        /\ pc[q] = "idle" /\ req[q].op = "download"
        /\ res[q].status = "OK" /\ res[q].key = k
        /\ res[q].data = uploads[k].data
        /\ rows[k].present /\ rows[k].viewed

\* with this step task p starts operation op on k
Starts(p, op, k) ==
    /\ Acts(p)
    /\ pc[p] = "idle"
    /\ req'[p].op = op
    /\ req'[p].resourceKey = k

\* the step answers task p with an error, and no row changes
Rejected(p, status) ==
    /\ pc'[p] = "idle"
    /\ res'[p].status = status
    /\ res'[p].data = <<>>
    /\ rows' = rows

\* the row of k is there, not viewed and not expired
Live(k) ==
    /\ rows[k].present
    /\ ~rows[k].viewed
    /\ (rows[k].expires_at = NullTime \/ rows[k].expires_at > now)

\* C4: for a live resource uploaded with a password, a download request with
\* no password is answered PasswordRequired and one with another password
\* InvalidPassword, without plaintext and without a change of the row; one
\* with the password of the upload is answered neither.  No step that a
\* download presenting another password than the upload's takes up to and
\* including its decryption hands it the plaintext or changes a row.
C4_PasswordGate ==
    [][\A p \in Procs, k \in ResourceKeys :
          /\ (Starts(p, "download", k) /\ Live(k) /\ uploads[k].password # NoPassword)
                => /\ req'[p].password = NoPassword => Rejected(p, "PasswordRequired")
                   /\ req'[p].password \notin {NoPassword, uploads[k].password}
                        => Rejected(p, "InvalidPassword")
                   /\ req'[p].password = uploads[k].password
                        => res'[p].status \notin {"PasswordRequired", "InvalidPassword"}
          /\ (/\ Acts(p)
              /\ pc[p] # "mark"
              /\ req'[p].op = "download"
              /\ req'[p].resourceKey = k
              /\ rows[k].present
              /\ uploads[k].password # NoPassword
              /\ req'[p].password # uploads[k].password)
                => /\ pc'[p] # "mark"
                   /\ res'[p].status # "OK"
                   /\ rows' = rows]_vars

\* C4 happens: of two downloads of a resource uploaded with a password, the
\* one without password was answered PasswordRequired and the one with the
\* password and the key of the upload got the payload.
C4_Witness ==
    \E p, q \in Procs, k \in ResourceKeys :
        /\ rows[k].present /\ uploads[k].password # NoPassword
        /\ pc[p] = "idle" /\ req[p].op = "download" /\ res[p].key = k
        /\ req[p].password = NoPassword /\ res[p].status = "PasswordRequired"
        /\ pc[q] = "idle" /\ req[q].op = "download" /\ res[q].key = k
        /\ req[q].password = uploads[k].password
        /\ res[q].status = "OK" /\ res[q].data = uploads[k].data

\* C5: a download or preview that returns while the row of its resource is
\* still there with expires_at in the past returns Expired.
C5_ExpiredReadsFailExpired ==
    [][\A p \in Procs, k \in ResourceKeys :
          (/\ Acts(p)
           /\ pc'[p] = "idle"
           /\ req'[p].op \in {"download", "preview"}
           /\ req'[p].resourceKey = k
           /\ rows[k].present
           /\ rows[k].expires_at # NullTime
           /\ rows[k].expires_at < now)
              => res'[p].status = "Expired"]_vars

\* C6: when an upload returns after its insert failed, no object is stored
\* under its resource key.
C6_RollbackRemovesBlob ==
    [][\A p \in Procs, k \in ResourceKeys :
          (Returns(p, "upload", k) /\ pc[p] = "rollback")
              => (~blobs'[k].exists /\ res'[p].status = "Internal")]_vars

\* C7: every row that is neither viewed nor expired has its object.
C7_LiveRowHasBlob ==
    \A k \in ResourceKeys : Live(k) => blobs[k].exists

\* C8: no step of a preview, whether it ends in a payload or in an error,
\* changes a row or an object.
C8_PreviewNonConsuming ==
    [][\A p \in Procs :
          (Acts(p) /\ req'[p].op = "preview") => (rows' = rows /\ blobs' = blobs)]_vars

\* C8 happens: a preview of k returned the payload, and so did a download
\* of k.
C8_Witness ==
    \E p, q \in Procs, k \in ResourceKeys :
        /\ pc[p] = "idle" /\ req[p].op = "preview"
        /\ res[p].status = "OK" /\ res[p].key = k
        /\ pc[q] = "idle" /\ req[q].op = "download"
        /\ res[q].status = "OK" /\ res[q].key = k
        /\ res[q].data = res[p].data

\* the request presents the key the upload of k returned and the password
\* the upload was given
Presents(request, k) ==
    /\ request.encKeyBase64 = uploads[k].encKeyBase64
    /\ request.password = uploads[k].password

\* the object under k is the one the upload of k stored (the salt tells),
\* unaltered
BlobAsUploaded(k) ==
    /\ blobs[k].exists
    /\ blobs[k].data.intact
    /\ blobs[k].data.key[2] = uploads[k].salt

\* the step is one of task p, which is at label in operation op on k
StepAt(p, label, op, k) ==
    /\ Acts(p)
    /\ pc[p] = label
    /\ req[p].op = op
    /\ req[p].resourceKey = k

\* C9: the first download of an uploaded resource that presents the returned
\* key and the password of the upload passes the guard and the key check,
\* finds the row, decrypts the stored object to exactly the uploaded payload
\* and returns it.
C9_RoundTrip ==
    [][\A p \in Procs, k \in ResourceKeys :
          /\ (Starts(p, "download", k) /\ Live(k) /\ Presents(req'[p], k))
                => pc'[p] = "query"
          /\ (StepAt(p, "query", "download", k) /\ Live(k)) => pc'[p] = "fetch"
          /\ (/\ StepAt(p, "fetch", "download", k)
              /\ Live(k)
              /\ loc[p].resource = rows[k]
              /\ Presents(req[p], k)
              /\ BlobAsUploaded(k))
                => (pc'[p] = "mark" /\ loc'[p].decryptedData = uploads[k].data)
          /\ StepAt(p, "mark", "download", k)
                => (res'[p].status = "OK" /\ res'[p].data = loc[p].decryptedData)]_vars

\* C9 happens: a download that presented the key and the password of an
\* upload made with a password returned the uploaded payload.
C9_Witness ==
    \E p \in Procs, k \in ResourceKeys :
        /\ rows[k].present /\ rows[k].viewed
        /\ uploads[k].password # NoPassword
        /\ pc[p] = "idle" /\ req[p].op = "download" /\ res[p].key = k
        /\ Presents(req[p], k)
        /\ res[p].status = "OK" /\ res[p].data = uploads[k].data

\* C10: when a download or preview comes to decrypt with other material
\* (key or password) than the upload used, or with an altered object, it
\* is answered DecryptionFailed; and whatever plaintext a download or
\* preview gets is the uploaded payload.
C10_Authentication ==
    [][\A p \in Procs, k \in ResourceKeys, op \in {"download", "preview"} :
          StepAt(p, "fetch", op, k) =>
            /\ (/\ Live(k)
                /\ loc[p].resource = rows[k]
                /\ uploads[k].password \in {NoPassword, req[p].password}
                /\ blobs[k].exists
                /\ (~Presents(req[p], k) \/ ~BlobAsUploaded(k)))
                  => Rejected(p, "DecryptionFailed")
            /\ pc'[p] = "mark" => loc'[p].decryptedData = uploads[k].data
            /\ res'[p].status = "OK" => res'[p].data = uploads[k].data]_vars

\* C10 happens: a download or preview that presented the key and the
\* password of the upload was answered DecryptionFailed, the object being
\* altered.
C10_Witness ==
    \E p \in Procs, k \in ResourceKeys :
        /\ rows[k].present /\ ~rows[k].viewed
        /\ blobs[k].exists /\ ~blobs[k].data.intact
        /\ pc[p] = "idle" /\ req[p].op \in {"download", "preview"} /\ res[p].key = k
        /\ Presents(req[p], k)
        /\ res[p].status = "DecryptionFailed"

\* the step is one of the sweeper
SweepActs == sweepPc' # sweepPc \/ sweepRes' # sweepRes \/ s3Done' # s3Done

\* C11: a sweep that returns without error leaves no expired row behind,
\* and no step of a sweep that runs while no row is expired (as the second
\* of two sweeps in succession does) changes a row or an object.
C11_IdempotentSweep ==
    [][/\ (SweepActs /\ sweepPc = "s3" /\ sweepPc' = "idle" /\ sweepRes' = "ok")
            => GetExpiredResources' = {}
       /\ (SweepActs /\ GetExpiredResources = {} /\ expiredKeys = {})
            => (rows' = rows /\ blobs' = blobs)]_vars

\* C11 happens: a sweep removed the expired row of an upload and returned
\* without error, and the next sweep has taken its snapshot, which is empty.
C11_Witness ==
    \E k \in ResourceKeys :
        /\ uploads[k].made /\ ~rows[k].present /\ ~blobs[k].exists
        /\ sweepRes = "ok"
        /\ sweepPc = "s3"
        /\ expiredKeys = {}

\* C12: the status code of every answer of download and preview is the one
\* the mapping gives for its outcome: NotFound 404, Expired and AlreadyViewed
\* 410, PasswordRequired and InvalidPassword 401, MissingEncryptionKey,
\* InvalidEncryptionKey and DecryptionFailed 400, any other error 500.
C12_HTTPMapping ==
    \A p \in Procs :
        (pc[p] = "idle" /\ res[p].op \in {"download", "preview"})
            => res[p].http =
                 CASE res[p].status = "OK" -> 200
                   [] res[p].status = "NotFound" -> 404
                   [] res[p].status \in {"Expired", "AlreadyViewed"} -> 410
                   [] res[p].status \in {"PasswordRequired", "InvalidPassword"} -> 401
                   [] res[p].status \in {"MissingEncryptionKey",
                                         "InvalidEncryptionKey",
                                         "DecryptionFailed"} -> 400
                   [] OTHER -> 500

\* C13: an upload whose expires_in is an instant in the past is answered
\* with 400 at once, and neither an object nor a row is written.
C13_PastExpiryRejected ==
    [][\A p \in Procs :
          (/\ Acts(p)
           /\ pc[p] = "idle"
           /\ req'[p].op = "upload"
           /\ req'[p].expiresAt # NullTime
           /\ req'[p].expiresAt < now)
              => /\ pc'[p] = "idle"
                 /\ res'[p].http = 400
                 /\ rows' = rows
                 /\ blobs' = blobs]_vars

\* C14: an upload whose expires_in is one of the durations 1h, 24h, 7d, 2w,
\* 1y is accepted, with an expires_at of the upload instant plus the
\* duration.
C14_DurationsAccepted ==
    (call.fn = "ExpiresIn" /\ call.at = "return")
        => \A d \in {[text |-> <<"1", "h">>, seconds |-> Hour],
                     [text |-> <<"2", "4", "h">>, seconds |-> 24 * Hour],
                     [text |-> <<"7", "d">>, seconds |-> 7 * 24 * Hour],
                     [text |-> <<"2", "w">>, seconds |-> 14 * 24 * Hour],
                     [text |-> <<"1", "y">>, seconds |-> 365 * 24 * Hour]} :
               call.expiresInStr = d.text
                   => /\ call.result.accepted
                      /\ call.result.expiresAt = call.clock + d.seconds

\* C15: an upload without expires_in (absent or empty) gets an expires_at of
\* the upload instant plus 24 hours, and no accepted upload, whatever its
\* expires_in, gets a row with a NULL expires_at.
C15_DefaultExpiry ==
    (call.fn = "ExpiresIn" /\ call.at = "return")
        => /\ call.expiresInStr = <<>>
                => /\ call.result.accepted
                   /\ call.result.expiresAt = call.clock + 24 * Hour
                   /\ call.column = [null |-> FALSE, time |-> call.clock + 24 * Hour]
           /\ call.result.accepted => ~call.column.null

\* C16: the URL a successful upload returns is "/media/", the resource key,
\* "#", the encryption key; the resource key is 22 characters of the
\* URL-safe base64 alphabet and the encryption key 43 of them, no padding.
C16_URLShape ==
    (call.fn = "UploadResponse" /\ call.at = "return")
        => /\ call.body.url =
                MediaURLPrefix \o call.resourceKey \o HashText \o call.encKeyBase64
           /\ Len(call.resourceKey) = 22
           /\ \A i \in 1..Len(call.resourceKey) : call.resourceKey[i] \in 0..63
           /\ Len(call.encKeyBase64) = 43
           /\ \A i \in 1..Len(call.encKeyBase64) : call.encKeyBase64[i] \in 0..63

\* C17: whichever way a view, preview or download request carries the
\* encryption key (fragment, ?enc_key=, inside the path token), no log
\* record of the request contains the key.
C17_FragmentSecrecy ==
    (call.fn = "RequestLog" /\ call.at = "return")
        => \A record \in call.log : ~Contains(record.text, call.encKeyBase64)

\* C18: the resource_key a successful upload returns is the key of the row
\* and, after "media/", of the object; and the encryption key is in the
\* answer nowhere but in the fragment of the URL.
C18_ReturnedPair ==
    (call.fn = "UploadResponse" /\ call.at = "return")
        => /\ "resource_key" \in DOMAIN call.body
                => /\ call.body.resource_key = call.rowKey
                   /\ MediaS3Prefix \o call.body.resource_key = call.s3Key
           /\ FragmentOf(call.body.url) = call.encKeyBase64
           /\ \A f \in DOMAIN call.body :
                ~Contains(BeforeFragment(call.body[f]), call.encKeyBase64)
                /\ (f # "url" => ~Contains(call.body[f], call.encKeyBase64))

\* task q is in a download of j
Downloading(q, j) ==
    /\ pc[q] \in {"query", "fetch", "mark"}
    /\ req[q].op = "download"
    /\ req[q].resourceKey = j

C20_ShutdownOrdering ==
    [][/\ app # "running" => ~SweepActs
       /\ app' = "closed" => \A p \in Procs : pc'[p] = "idle"
       /\ app = "closed" => \A p \in Procs : ~Acts(p)
       /\ app = "closed" => ~(SweepActs /\ sweepPc = "s3" /\ sweepPc' = "idle")]_vars

\* C21: a download or preview accepts the encryption key in padded and in
\* un-padded URL-safe base64: for the same 32 key bytes the two encodings
\* lead to the same decryption result.
C21_TolerantKeyDecoding ==
    (call.fn = "KeyDecoding" /\ call.at = "return")
        => call.result =
               DecodeAndDecrypt(EncodeKey(GenerateKey(call.m), "raw"), call.n)

\* download p has read the row of k with GetMediaResourceForView and its
\* MarkAsViewed has not yet been executed
HoldsRowLock(p, k) ==
    /\ pc[p] \in {"fetch", "mark"}
    /\ req[p].op = "download"
    /\ req[p].resourceKey = k

\* C22: the row lock a download takes with GetForView is held until its
\* MarkViewed: between those two steps no other download of the same
\* resource_key executes its locked read of the row.
C22_LockHeldUntilMarked ==
    [][\A p, q \in Procs, k \in ResourceKeys :
          (p # q /\ HoldsRowLock(p, k))
              => ~(/\ pc[q] = "query"
                   /\ pc'[q] # "query"
                   /\ req[q].op = "download"
                   /\ req[q].resourceKey = k)]_vars

\* C23: an upload reaches CreateMediaResource only with its object put under
\* its key; when the put fails (no object changes) the upload returns an
\* error in that step and no row changes; and a row that appears is inserted
\* by an upload that is past its put, under the key of that put.
C23_InsertAfterPut ==
    [][/\ \A p \in Procs :
            (Acts(p) /\ pc[p] = "idle" /\ req'[p].op = "upload")
                => /\ pc'[p] = "insert"
                        => /\ blobs'[loc'[p].resourceKey].exists
                           /\ blobs'[loc'[p].resourceKey].data.key[2] = loc'[p].salt
                   /\ blobs' = blobs
                        => /\ pc'[p] = "idle"
                           /\ res'[p].status \in {"BadRequest", "Internal"}
                           /\ rows' = rows
       /\ \A k \in ResourceKeys :
            (~rows[k].present /\ rows'[k].present)
                => \E p \in Procs :
                       /\ Acts(p)
                       /\ pc[p] = "insert"
                       /\ req[p].op = "upload"
                       /\ loc[p].resourceKey = k]_vars

\* C23 happens: the put of an upload has succeeded, its object is under the
\* key and its row is not there yet.
C23_Witness ==
    \E p \in Procs, k \in ResourceKeys :
        /\ pc[p] = "insert"
        /\ loc[p].resourceKey = k
        /\ blobs[k].exists
        /\ blobs[k].data.key[2] = loc[p].salt
        /\ ~rows[k].present

C26_SweepDeletesExpiredOnly ==
    [][SweepActs =>
          /\ \A k \in ResourceKeys :
                rows'[k] # rows[k]
                    => /\ rows[k].present
                       /\ rows[k].expires_at # NullTime
                       /\ rows[k].expires_at <= now
                       /\ rows'[k] = NoRow
          /\ (sweepPc' = "idle" /\ sweepRes' = "ok")
                => \A k \in ResourceKeys :
                       rows'[k].present
                           => \/ rows'[k].expires_at = NullTime
                              \/ rows'[k].expires_at > now]_vars

\* C26 happens: a run has returned without error; it removed the expired
\* row of one resource and left the row of another, viewed and without
\* expiry.
C26_Witness ==
    \E j, k \in ResourceKeys :
        /\ sweepPc = "idle" /\ sweepRes = "ok"
        /\ uploads[j].made /\ ~rows[j].present
        /\ rows[k].present /\ rows[k].viewed /\ rows[k].expires_at = NullTime

\* C27: the step in which the s3.Delete of a snapshotted key fails leaves
\* the run going, with its snapshot; a run that has its snapshot ends only
\* with the DELETE of the rows, taken when the deletion of every snapshotted
\* object has been attempted; and that run returns an error only when the
\* DELETE itself failed, and otherwise has removed every expired row.
C27_SweepSurvivesBlobFailure ==
    [][SweepActs =>
          /\ (\E k \in s3Done' \ s3Done : blobs[k].exists /\ blobs'[k].exists)
                => /\ sweepPc' = "s3"
                   /\ sweepRes' = sweepRes
                   /\ expiredKeys' = expiredKeys
                   /\ rows' = rows
          /\ (sweepPc = "s3" /\ sweepPc' = "idle")
                => /\ s3Done = expiredKeys
                   /\ \/ sweepRes' = "ok" /\ GetExpiredResources' = {}
                      \/ sweepRes' = "error" /\ rows' = rows]_vars

\* C27 happens: both resources were in the snapshot of a run; the deletion
\* of one object failed, the other object was deleted all the same, both
\* rows were deleted and the run returned without error.
C27_Witness ==
    \E j, k \in ResourceKeys :
        /\ j # k
        /\ uploads[j].made /\ uploads[k].made
        /\ ~rows[j].present /\ ~rows[k].present
        /\ blobs[j].exists /\ ~blobs[k].exists
        /\ sweepPc = "idle" /\ sweepRes = "ok"

\* C28: the rows the DELETE of a run removes are those of the run's
\* snapshot: the step removes the row of every snapshotted key and of no
\* other key, so that no row goes whose object the run did not try to
\* delete.
C28_DeletedRowsAreSnapshot ==
    [][(SweepActs /\ sweepPc = "s3" /\ sweepPc' = "idle" /\ sweepRes' = "ok")
          => {k \in ResourceKeys : rows[k].present /\ ~rows'[k].present} = expiredKeys]_vars

\* C29: with the sweeper on its schedule and every blob deletion succeeding,
\* a resource whose row has an expires_at is in the end deleted, row and
\* object, viewed or not.
C29_EventualCleanup ==
    \A k \in ResourceKeys :
        (rows[k].present /\ rows[k].expires_at # NullTime)
            ~> (~rows[k].present /\ ~blobs[k].exists)

\* the first of the guard's conditions that the row of k and the candidate
\* password meet, in the order of the guard; "OK" when they meet none
FirstRefusal(k, password) ==
    CASE ~rows[k].present -> "NotFound"
      [] rows[k].present /\ rows[k].expires_at # NullTime /\ rows[k].expires_at < now
            -> "Expired"
      [] OTHER ->
            IF rows[k].viewed THEN "AlreadyViewed"
            ELSE IF rows[k].password_hash = NullHash THEN "OK"
            ELSE IF password = NoPassword THEN "PasswordRequired"
            ELSE IF rows[k].password_hash # hashPassword(password) THEN "InvalidPassword"
            ELSE "OK"

\* C30: the guard answers a download or preview request by the first of
\* NotFound, Expired, AlreadyViewed, PasswordRequired, InvalidPassword that
\* applies to the row and the candidate password, changing nothing; it lets
\* the request through to the key checks exactly when none applies.
C30_GuardOrder ==
    [][\A p \in Procs, k \in ResourceKeys :
          (/\ Acts(p)
           /\ pc[p] = "idle"
           /\ req'[p].op \in {"download", "preview"}
           /\ req'[p].resourceKey = k)
              => LET refusal == FirstRefusal(k, req'[p].password) IN
                 /\ refusal # "OK" => Rejected(p, refusal)
                 /\ refusal = "OK"
                       => \/ pc'[p] = "query"
                          \/ /\ pc'[p] = "idle"
                             /\ res'[p].status \in {"MissingEncryptionKey",
                                                    "InvalidEncryptionKey"}]_vars

\* C30 happens: the resource of k has a password; a download with it got the
\* payload, and a later request without password was answered AlreadyViewed,
\* not PasswordRequired.
C30_Witness ==
    \E p, q \in Procs, k \in ResourceKeys :
        /\ rows[k].present /\ rows[k].viewed
        /\ rows[k].password_hash # NullHash
        /\ pc[q] = "idle" /\ req[q].op = "download"
        /\ res[q].status = "OK" /\ res[q].key = k
        /\ pc[p] = "idle" /\ req[p].op \in {"download", "preview"}
        /\ req[p].resourceKey = k /\ req[p].password = NoPassword
        /\ res[p].status = "AlreadyViewed"

\* the row that download p read passes the checks of the service: not
\* expired, not viewed, the password verified
PassesChecks(p) ==
    /\ ~IsExpired(loc[p].resource)
    /\ ~loc[p].resource.viewed
    /\ \/ loc[p].resource.password_hash = NullHash
       \/ verifyPassword(req[p].password, loc[p].resource.password_hash)

\* C31: a download of k that has passed the guard and the checks on its row
\* and finds no object under k returns NotFound in that step, without the
\* payload, and changes neither a row (viewed stays as it was) nor an object.
C31_MissingBlobNotFound ==
    [][\A p \in Procs, k \in ResourceKeys :
          (StepAt(p, "fetch", "download", k) /\ PassesChecks(p) /\ ~blobs[k].exists)
              => /\ Returns(p, "download", k)
                 /\ res'[p].status = "NotFound"
                 /\ res'[p].data = <<>>
                 /\ rows' = rows
                 /\ blobs' = blobs]_vars

\* C31 happens: the row of the resource without expiry is there, not viewed,
\* its object is gone, and a download of it was answered NotFound.
C31_Witness ==
    \E p \in Procs :
        /\ pc[p] = "idle" /\ req[p].op = "download"
        /\ req[p].resourceKey = KeyOrder[1]
        /\ res[p].status = "NotFound"
        /\ rows[KeyOrder[1]].present /\ ~rows[KeyOrder[1]].viewed
        /\ ~blobs[KeyOrder[1]].exists

\* the text is not one of the un-padded URL-safe base64 encoding: it holds a
\* character outside the alphabet, or its length is 1 beyond a multiple of 4
Undecodable(text) ==
    \/ \E i \in 1..Len(text) : text[i] \notin 0..63
    \/ Len(text) % 4 = 1

\* C32: a download or preview that the guard lets through returns
\* MissingEncryptionKey when its key text is empty and InvalidEncryptionKey
\* when the text cannot be decoded, in the step in which it enters: before
\* the row read and the object read of the pipeline, with no row and no
\* object changed.  No request returns either error at a later step.
C32_KeyErrorsBeforeReads ==
    [][\A p \in Procs, k \in ResourceKeys :
          /\ (/\ Acts(p)
              /\ pc[p] = "idle"
              /\ req'[p].op \in {"download", "preview"}
              /\ req'[p].resourceKey = k
              /\ FirstRefusal(k, req'[p].password) = "OK")
                => /\ req'[p].encKeyBase64 = <<>>
                        => (Rejected(p, "MissingEncryptionKey") /\ blobs' = blobs)
                   /\ (req'[p].encKeyBase64 # <<>> /\ Undecodable(req'[p].encKeyBase64))
                        => (Rejected(p, "InvalidEncryptionKey") /\ blobs' = blobs)
          /\ (/\ Acts(p)
              /\ pc'[p] = "idle"
              /\ res'[p].status \in {"MissingEncryptionKey", "InvalidEncryptionKey"})
                => pc[p] = "idle"]_vars

\* C32 happens: of two requests for a resource in store, not viewed, the one
\* without key was answered MissingEncryptionKey and the one with the padded
\* key InvalidEncryptionKey; the row and the object are as the upload left
\* them.
C32_Witness ==
    \E p, q \in Procs, k \in ResourceKeys :
        /\ rows[k].present /\ ~rows[k].viewed /\ BlobAsUploaded(k)
        /\ pc[p] = "idle" /\ req[p].op = "download" /\ req[p].resourceKey = k
        /\ req[p].encKeyBase64 = <<>>
        /\ res[p].status = "MissingEncryptionKey"
        /\ pc[q] = "idle" /\ req[q].op = "preview" /\ req[q].resourceKey = k
        /\ req[q].encKeyBase64 = Append(uploads[k].encKeyBase64, PadChar)
        /\ res[q].status = "InvalidEncryptionKey"

\* the name in lower case
ToLower(text) == [i \in 1..Len(text) |-> IF text[i] = "B" THEN "b" ELSE text[i]]

\* the text has a dot
HasDot(text) == \E i \in 1..Len(text) : text[i] = "."

\* C33: of an uploaded name with an extension, the stored file_extension is
\* the part after the last dot, in lower case and without the dot, and the
\* stored filename is the part before that dot; a name without a dot is
\* stored whole in filename, with file_extension NULL.
C33_FilenameSplit ==
    (call.fn = "Filename" /\ call.at = "return")
        => IF HasDot(call.name)
           THEN /\ call.stored.file_extension = ToLower(TrimDot(Ext(call.name)))
                /\ call.stored.filename = TrimSuffix(call.name, Ext(call.name))
           ELSE /\ call.stored.filename = call.name
                /\ call.stored.file_extension = NullString

\* C34: the name the download handler builds from the stored filename and
\* file_extension is the uploaded name, for every non-empty name.
C34_FilenameRoundTrip ==
    (call.fn = "Filename" /\ call.at = "return")
        => call.downloadFilename = call.name

\* C35: when an upload returns an error after its put, whether the hashing
\* of the password or the insert failed, the object it put is not in the
\* bucket any more.
C35_NoOrphanBlob ==
    [][\A p \in Procs :
          (/\ Acts(p)
           /\ pc[p] \in {"insert", "rollback"}
           /\ pc'[p] = "idle"
           /\ res'[p].status # "OK")
              => LET k == loc[p].resourceKey IN
                 ~(blobs'[k].exists /\ blobs'[k].data.key[2] = loc[p].salt)]_vars

\* C36: no step of an upload changes the row or the object of a resource
\* whose row is in the table, whatever key the upload has drawn: when the
\* key is that of the row, the insert fails and the resource stays as it
\* was.
C36_CollisionLeavesResource ==
    [][\A p \in Procs, k \in ResourceKeys :
          (Acts(p) /\ req'[p].op = "upload" /\ rows[k].present)
              => (rows'[k] = rows[k] /\ blobs'[k] = blobs[k])]_vars

\* C37: no preview returns the payload of a resource whose row is viewed at
\* that moment, however the preview and a download of the same key
\* interleave.
C37_NoPreviewAfterViewed ==
    [][\A p \in Procs, k \in ResourceKeys :
          (/\ Returns(p, "preview", k)
           /\ res'[p].status = "OK"
           /\ rows[k].present
           /\ rows[k].salt = loc[p].resource.salt)
              => ~rows[k].viewed]_vars

====
